---- MODULE Spec2Model ----
(***************************************************************************)
(* Model of the powerbool crate (src/src/lib.rs): the PowerBool trait on   *)
(* bool (set, trip, raise, lower, kick, punch) and the blanket Change      *)
(* implementation for every T: PartialEq.                                  *)
(*                                                                         *)
(* A caller owns one bool slot and one slot of a PartialEq type and calls  *)
(* the operations on them in any order.  Every call is recorded with the   *)
(* slot before it, its argument, its return value and the slot after it.   *)
(* The PartialEq type is instantiated at a float-like type: a few numbers  *)
(* and NaN, whose equality is not reflexive.                               *)
(***************************************************************************)
EXTENDS Integers, Sequences, FiniteSets

\* Bounds of the exploration.
MaxCalls == 3
MaxVal == 2

\* The not-a-number value of the float-like instance of T (encoded below the numbers).
NaN == -1

\* The values of the float-like instance of T: PartialEq.
Values == (0..MaxVal) \cup {NaN}

\* PartialEq::eq of the instance: IEEE equality, NaN equals nothing.
eq(a, b) == a # NaN /\ b # NaN /\ a = b

\* PartialEq::ne, the operator `!=` used by change.
ne(a, b) == ~eq(a, b)

VARIABLES
    init,    \* the bool slot when the caller created it
    slot,    \* the bool slot (`*self` of PowerBool)
    hist,    \* the PowerBool calls made so far
    cinit,   \* the generic slot when the caller created it
    cslot,   \* the generic slot (`*self` of Change)
    chist    \* the change calls made so far

vars == <<init, slot, hist, cinit, cslot, chist>>

----
\* Mutants of the operations (plausible slips of the code).

\* set that reports equality instead of change
set_reports_same(self, val) == [self |-> val, ret |-> self = val]

\* set that computes the return value but forgets the store
set_no_store(self, val) == [self |-> self, ret |-> self # val]

\* trip that ignores the previous value in its return
trip_returns_val(self, val) == [self |-> self \/ val, ret |-> val]

\* trip that stores the argument like set does
trip_stores_val(self, val) == [self |-> val, ret |-> val /\ ~self]

\* trip that returns true whenever the value was false, and raises it
trip_if_was_false(self, val) == [self |-> TRUE, ret |-> ~self]

----
\* <bool as PowerBool>::set
set(self, val) ==
    LET ret == self # val
    IN  [self |-> val, ret |-> ret]

\* <bool as PowerBool>::trip
trip(self, val) ==
    LET ret == val /\ ~self
    IN  [self |-> IF ret THEN TRUE ELSE self, ret |-> ret]

\* raise that lowers
raise_sets_false(self) == set(self, FALSE)

\* PowerBool::raise
raise(self) == set(self, TRUE)

\* PowerBool::lower
lower(self) == set(self, FALSE)

\* kick without the negation
kick_no_negation(self) == set(self, FALSE)

\* PowerBool::kick
kick(self) ==
    LET r == set(self, FALSE)
    IN  [self |-> r.self, ret |-> ~r.ret]

\* punch without the negation
punch_no_negation(self) == set(self, TRUE)

\* PowerBool::punch
punch(self) ==
    LET r == set(self, TRUE)
    IN  [self |-> r.self, ret |-> ~r.ret]

\* change that always stores and reports a change
change_always(self, v) == [self |-> v, ret |-> TRUE]

\* change that reports the change but forgets the store
change_no_store(self, v) == [self |-> self, ret |-> ne(self, v)]

\* <T as Change>::change
change(self, v) ==
    IF ne(self, v)
    THEN [self |-> v, ret |-> TRUE]
    ELSE [self |-> self, ret |-> FALSE]

----
Calls == Len(hist) + Len(chist)

\* A PowerBool call: the slot takes the operation's result and the call is recorded.
Record(op, val, r) ==
    /\ slot' = r.self
    /\ hist' = Append(hist, [op |-> op, val |-> val, before |-> slot,
                             ret |-> r.ret, after |-> r.self])
    /\ UNCHANGED <<init, cinit, cslot, chist>>

Init ==
    /\ init \in BOOLEAN
    /\ slot = init
    /\ hist = <<>>
    /\ cinit \in Values
    /\ cslot = cinit
    /\ chist = <<>>

CallSet ==
    /\ Calls < MaxCalls
    /\ \E val \in BOOLEAN : Record("set", val, set(slot, val))

CallTrip ==
    /\ Calls < MaxCalls
    /\ \E val \in BOOLEAN : Record("trip", val, trip(slot, val))

CallRaise ==
    /\ Calls < MaxCalls
    /\ Record("raise", TRUE, raise(slot))

CallLower ==
    /\ Calls < MaxCalls
    /\ Record("lower", FALSE, lower(slot))

CallKick ==
    /\ Calls < MaxCalls
    /\ Record("kick", FALSE, kick(slot))

CallPunch ==
    /\ Calls < MaxCalls
    /\ Record("punch", TRUE, punch(slot))

CallChange ==
    /\ Calls < MaxCalls
    /\ \E v \in Values :
         LET r == change(cslot, v)
         IN  /\ cslot' = r.self
             /\ chist' = Append(chist, [v |-> v, before |-> cslot,
                                        ret |-> r.ret, after |-> r.self])
    /\ UNCHANGED <<init, slot, hist, cinit>>

Next ==
    \/ CallSet
    \/ CallTrip
    \/ CallRaise
    \/ CallLower
    \/ CallKick
    \/ CallPunch
    \/ CallChange

Spec == Init /\ [][Next]_vars

----
\* Helpers of the properties.

\* The calls of hist made with operation op.
CallsOf(op) == {i \in 1..Len(hist) : hist[i].op = op}

\* The slot is threaded through the calls: each call starts where the last one ended.
TypeOK ==
    /\ init \in BOOLEAN /\ slot \in BOOLEAN
    /\ cinit \in Values /\ cslot \in Values
    /\ \A i \in 1..Len(hist) :
         /\ hist[i].before = (IF i = 1 THEN init ELSE hist[i-1].after)
         /\ i = Len(hist) => hist[i].after = slot
    /\ \A i \in 1..Len(chist) :
         /\ chist[i].before = (IF i = 1 THEN cinit ELSE chist[i-1].after)
         /\ i = Len(chist) => chist[i].after = cslot

\* The calls of hist made with one of the operations ops.
CallsIn(ops) == {i \in 1..Len(hist) : hist[i].op \in ops}

\* The change calls.
ChangeCalls == 1..Len(chist)

\* The calls of hist after which the slot differs from the slot before.
Changing == {i \in 1..Len(hist) : hist[i].after # hist[i].before}

\* The calls whose return value reports a change of the slot.
ReportedChanges ==
    {i \in CallsIn({"set", "raise", "lower", "trip"}) : hist[i].ret}
        \cup {i \in CallsIn({"kick", "punch"}) : ~hist[i].ret}

\* Every call made so far is a call of op.
AllCallsAre(op) == \A j \in 1..Len(hist) : hist[j].op = op

\* The first k calls are all calls of trip.
OnlyTrips(k) == \A j \in 1..k : hist[j].op = "trip"

----
\* C1: for every slot value b and argument v, set(v) returns exactly
\* (b /= v) and leaves v in the slot.
C1_SetReturnsChanged ==
    \A i \in CallsOf("set") :
        /\ hist[i].ret = (hist[i].before # hist[i].val)
        /\ hist[i].after = hist[i].val

\* set(true) on a true slot, then set(false) changing it, then set(false) again
C1_Witness ==
    /\ Len(hist) = 3
    /\ AllCallsAre("set")
    /\ hist[1].before = TRUE /\ hist[1].val = TRUE
    /\ hist[2].val = FALSE
    /\ hist[3].val = FALSE

\* C2: for every slot value b and argument v, trip(v) returns exactly
\* (v and not b) and leaves (b or (v and not b)) in the slot.
C2_TripTruthTable ==
    \A i \in CallsOf("trip") :
        LET b == hist[i].before
            v == hist[i].val
        IN  /\ hist[i].ret = (v /\ ~b)
            /\ hist[i].after = (b \/ (v /\ ~b))

\* trip(false) left a false slot alone, trip(true) raised it, trip(true) again did nothing
C2_Witness ==
    /\ Len(hist) = 3
    /\ AllCallsAre("trip")
    /\ init = FALSE
    /\ hist[1].val = FALSE /\ hist[2].val = TRUE /\ hist[3].val = TRUE

\* C3 as stated: for all values a and b of a PartialEq type, a.change(b)
\* returns (a /= b) as compared before the call, and afterwards the slot
\* compares equal to b.
C3_ChangeThenEqual ==
    \A i \in ChangeCalls :
        /\ chist[i].ret = ne(chist[i].before, chist[i].v)
        /\ eq(chist[i].after, chist[i].v)

\* C3 amended: a.change(b) returns (a /= b) as compared before the call;
\* afterwards the slot compares equal to b when b compares equal to itself,
\* and when it does not (NaN) the slot holds b and compares unequal to it.
C3_ChangeThenEqualIfReflexive ==
    \A i \in ChangeCalls :
        LET a == chist[i].before
            b == chist[i].v
        IN  /\ chist[i].ret = ne(a, b)
            /\ eq(b, b) => eq(chist[i].after, b)
            /\ ~eq(b, b) => chist[i].after = b /\ ~eq(chist[i].after, b)

\* change stored a different number, then was a no-op, then stored NaN
C3_Witness ==
    /\ Len(chist) = 3
    /\ cinit = 1
    /\ chist[1].v = 2 /\ chist[1].ret
    /\ chist[2].v = 2 /\ ~chist[2].ret
    /\ chist[3].v = NaN /\ chist[3].ret

\* C4 as stated: change called twice in a row with the same argument returns
\* false the second time and leaves the slot as the first call left it.
C4_SecondChangeFalse ==
    \A i \in ChangeCalls :
        (i > 1 /\ chist[i-1].v = chist[i].v) =>
            /\ chist[i].ret = FALSE
            /\ chist[i].after = chist[i-1].after

\* C4 amended: change called twice in a row with the same argument b, where
\* b compares equal to itself, returns false the second time; in every case
\* the second call leaves the slot as the first call left it.
C4_SecondChangeFalseIfReflexive ==
    \A i \in ChangeCalls :
        (i > 1 /\ chist[i-1].v = chist[i].v) =>
            /\ eq(chist[i].v, chist[i].v) => chist[i].ret = FALSE
            /\ chist[i].after = chist[i-1].after

\* from 1, change(2) returned true and change(2) again returned false
C4_Witness ==
    /\ Len(chist) = 2
    /\ cinit = 1
    /\ chist[1].v = 2 /\ chist[1].ret /\ chist[1].after = 2
    /\ chist[2].v = 2 /\ ~chist[2].ret /\ cslot = 2

\* C5: kick returns true iff the slot was already false (the negation of
\* what set(false) returns) and leaves it false; punch returns true iff the
\* slot was already true (the negation of what set(true) returns) and leaves
\* it true.
C5_KickPunch ==
    /\ \A i \in CallsOf("kick") :
         /\ hist[i].ret = (hist[i].before = FALSE)
         /\ hist[i].ret = ~set(hist[i].before, FALSE).ret
         /\ hist[i].after = FALSE
    /\ \A i \in CallsOf("punch") :
         /\ hist[i].ret = (hist[i].before = TRUE)
         /\ hist[i].ret = ~set(hist[i].before, TRUE).ret
         /\ hist[i].after = TRUE

\* kick on a true slot, kick on the now false slot, then punch
C5_Witness ==
    /\ Len(hist) = 3
    /\ init = TRUE
    /\ hist[1].op = "kick" /\ ~hist[1].ret
    /\ hist[2].op = "kick" /\ hist[2].ret
    /\ hist[3].op = "punch" /\ ~hist[3].ret /\ slot = TRUE

\* C6: from the same slot value b, raise returns what set(true) returns and
\* leaves the slot as set(true) does (returns not b, slot true); lower
\* returns what set(false) returns and leaves the slot as set(false) does
\* (returns b, slot false).
C6_RaiseLowerAreSet ==
    /\ \A i \in CallsOf("raise") :
         /\ hist[i].ret = ~hist[i].before /\ hist[i].after = TRUE
         /\ \A j \in CallsOf("set") :
              (hist[j].val = TRUE /\ hist[j].before = hist[i].before) =>
                  hist[j].ret = hist[i].ret /\ hist[j].after = hist[i].after
    /\ \A i \in CallsOf("lower") :
         /\ hist[i].ret = hist[i].before /\ hist[i].after = FALSE
         /\ \A j \in CallsOf("set") :
              (hist[j].val = FALSE /\ hist[j].before = hist[i].before) =>
                  hist[j].ret = hist[i].ret /\ hist[j].after = hist[i].after

\* raise and set(true) were both called on a false slot
C6_Witness ==
    /\ Len(hist) = 3
    /\ init = FALSE
    /\ hist[1].op = "raise"
    /\ hist[2].op = "lower"
    /\ hist[3].op = "set" /\ hist[3].val = TRUE /\ hist[3].before = FALSE

C8_RaiseLowerIdempotent ==
    \A i \in 2..Len(hist) :
        /\ (hist[i-1].op = "raise" /\ hist[i].op = "raise") =>
               /\ hist[i-1].after = TRUE
               /\ hist[i].ret = FALSE /\ hist[i].after = TRUE
        /\ (hist[i-1].op = "lower" /\ hist[i].op = "lower") =>
               /\ hist[i-1].after = FALSE
               /\ hist[i].ret = FALSE /\ hist[i].after = FALSE

\* raise was called twice in a row on a slot that started false
C8_Witness ==
    /\ Len(hist) = 2
    /\ init = FALSE
    /\ hist[1].op = "raise" /\ hist[1].ret
    /\ hist[2].op = "raise"

\* C9: trip is a one-way latch: no call of trip takes the slot from true to
\* false or returns true on a slot already true, and over a sequence of trip
\* calls the slot after each call is the initial value OR-ed with the
\* arguments so far and at most one call returned true.
C9_TripLatch ==
    /\ \A i \in CallsOf("trip") :
         /\ hist[i].before => hist[i].after
         /\ hist[i].before => ~hist[i].ret
         /\ hist[i].ret => (~hist[i].before /\ hist[i].after)
    /\ \A k \in 1..Len(hist) :
         OnlyTrips(k) =>
             /\ hist[k].after = (init \/ \E j \in 1..k : hist[j].val)
             /\ Cardinality({j \in 1..k : hist[j].ret}) <= 1

\* three calls of trip on a false slot, the second one tripping it
C9_Witness ==
    /\ Len(hist) = 3
    /\ OnlyTrips(3)
    /\ init = FALSE
    /\ ~hist[1].ret /\ hist[2].ret /\ ~hist[3].ret
    /\ slot = TRUE

\* C10: every call of set, raise, lower or trip returns true iff it changed
\* the slot, every call of kick or punch returns true iff it did not, and
\* the slot differs from its initial value iff the number of calls that
\* reported a change is odd.
C10_ReturnTracksChange ==
    /\ \A i \in CallsIn({"set", "raise", "lower", "trip"}) :
         hist[i].ret = (hist[i].after # hist[i].before)
    /\ \A i \in CallsIn({"kick", "punch"}) :
         hist[i].ret = (hist[i].after = hist[i].before)
    /\ (slot # init) = (Cardinality(ReportedChanges) % 2 = 1)

\* three calls, each of which changed the slot, one of them a punch
C10_Witness ==
    /\ Len(hist) = 3
    /\ Cardinality(Changing) = 3
    /\ hist[2].op = "punch"
    /\ slot # init

====
